---------------------------- MODULE Spec2Model ----------------------------
(***************************************************************************)
(* State-machine model of the study-kit generator (App component and the   *)
(* Gemini service wrapper).                                                *)
(*                                                                         *)
(* React state is modelled by one variable per field of `state`, plus      *)
(* `loadingStates` and `activeBatchIndex`.  A handler runs atomically up   *)
(* to its first `await`; the part after the `await` (or a .then/.catch     *)
(* callback) is a second atomic step that sees the values the handler      *)
(* captured when it started (its closure) and the current state through    *)
(* the functional updaters `setState(prev => ...)`.                        *)
(*                                                                         *)
(* Texts are sequences of tokens, so that concatenation and prefix are     *)
(* those of the strings.  A nullable value is <<>> (null / undefined) or   *)
(* <<v>>.                                                                  *)
(*                                                                         *)
(* The clarification of selected text (handleMouseUp, handleClarify,       *)
(* closeClarification) is independent of the session state; its steps are  *)
(* taken in SpecClarify.  The service functions that parse a structured    *)
(* response are followed from the reply to the outcome in SpecGateway.     *)
(*                                                                         *)
(* Not modelled: `language` and `activeTab` (they only select a prompt     *)
(* word and which tab is drawn; the tab buttons are always available, so   *)
(* every handler reachable under some tab is reachable), the export        *)
(* document and the markup.                                                *)
(***************************************************************************)
EXTENDS Integers, Sequences, FiniteSets, Bags, TLC

\* ----------------------------------------------------------------- bounds
\* Spec explores the generation pipeline in depth and the image picker
\* shallowly; SpecUpload does the reverse.  Both are the whole program.
\* Number of generation runs (handleGenerate triggers) explored.
MaxRuns == 2
\* Calls still pending from earlier activity when a run may start.
MaxStale == 1
\* Largest number of files chosen in one file-picker change event.
MaxFiles == 1
\* Cap on stored plus pending images (the race of C1 can grow the set without end).
MaxImages == 1
\* Largest number of questions the model returns in one batch.
MaxQ == 2
\* Cap on the number of batches at which a batch extension may still start.
MaxBatches == 2
\* Cap on the length of layer3 (in tokens) at which a bonus extension may still start.
MaxLayer3 == 2
\* Number of option keys a question has.
MaxOptions == 1
\* SpecExam: as Spec, with more option keys.
ExamOptions == 2
\* Progress specification: questions per batch, calls pending at a run trigger.
LiveQ == 2
LiveStale == 0
\* Longest Gateway response text, in tokens.
MaxText == 3
\* Clarification specification: runs, clarification calls pending at once.
ClarifyRuns == 1
MaxClarify == 2
\* SpecUpload: one run, nothing stale, a deeper image picker.
UploadRuns == 1
UploadStale == 0
UploadFiles == 2
UploadImages == 6

\* ------------------------------------------------------ program constants
\* The image-slot limit in handleFileUpload.
MaxPhotos == 5

\* ------------------------------------------------------------- data values
Null == <<>>
Some(v) == <<v>>
Get(o) == o[1]

NoAlert == "none"
MaxReachedMsg == "Maximum 5 photos allowed."
LoadFailedMsg == "Failed to load images."
BonusFailedMsg == "Failed to generate more bonus content."
MoreMCQFailedMsg == "Failed to generate more practice questions."
ClarifyFailedMsg == "Clarification failed. Please try again."
NoMoreMsg == "No more unique questions could be generated for this text."
AnalysisFailedMsg == "Analysis failed. The images might be blurry or the server is busy."
SummaryFailedText == <<"Summary generation failed.">>

Derivations == {"notes", "summary", "practice", "flashcards"}
\* The first k option keys of a question (Object.entries(options)).
OptionKeys(k) == {<<"A", "B", "C", "D">>[i] : i \in 1..k}

\* Array.prototype.slice(0, end) on a list: a negative end counts from the back.
Slice0(s, end) ==
    LET e == IF end < 0 THEN (IF Len(s) + end < 0 THEN 0 ELSE Len(s) + end)
             ELSE (IF end > Len(s) THEN Len(s) ELSE end)
    IN  SubSeq(s, 1, e)

\* Array.prototype.filter((_, i) => i !== index), index 1-based here.
RemoveAt(s, index) ==
    [i \in 1..(Len(s) - 1) |-> IF i < index THEN s[i] ELSE s[i + 1]]

IsPrefix(s, t) ==
    /\ Len(s) <= Len(t)
    /\ SubSeq(t, 1, Len(s)) = s

\* The file lists of one change event: <<1, ..., k>> for k up to maxFiles.
FileLists(maxFiles) == {[i \in 1..k |-> i] : k \in 1..maxFiles}

VARIABLES
    images, processing, ocrResult, masterNote, summary, mcqBatches, flashcards,
    currentQuestionIndex, userAnswers, examFinished, error,
    loadingStates, activeBatchIndex,
    uploads,      \* pending handleFileUpload continuations: a bag of file lists
    runCount,     \* number of handleGenerate runs started
    calls,        \* per run: the state of its extraction and derivation calls
    bonusCalls,   \* pending handleMoreBonus continuations (a bag of closures)
    moreCalls,    \* pending handleGenerateMoreMCQs continuations (a bag of closures)
    alerted,      \* the alert() raised by the last step, or NoAlert
    selection,    \* the text selection the tooltip is drawn for, or Null
    clarification,\* the clarification on display, or Null
    clarifyCalls, \* pending handleClarify continuations (a bag of closures)
    gateway       \* one service call followed from the Gateway's reply to its outcome

stateVars ==
    <<images, processing, ocrResult, masterNote, summary, mcqBatches, flashcards,
      currentQuestionIndex, userAnswers, examFinished, error>>

vars ==
    <<images, processing, ocrResult, masterNote, summary, mcqBatches, flashcards,
      currentQuestionIndex, userAnswers, examFinished, error,
      loadingStates, activeBatchIndex, uploads, runCount, calls, bonusCalls,
      moreCalls, alerted, selection, clarification, clarifyCalls, gateway>>

clarifyVars == <<selection, clarification, clarifyCalls>>

AllFlags(b) ==
    [ocr |-> b, notes |-> b, summary |-> b, practice |-> b, flashcards |-> b,
     clarification |-> b, moreBonus |-> b, morePractice |-> b]

NoCalls ==
    [ocr |-> "none", notes |-> "none", summary |-> "none", practice |-> "none",
     flashcards |-> "none"]

\* No service call is being followed.
NoGateway == [fn |-> "none", reply |-> Null, outcome |-> Null]

Init ==
    /\ images = <<>>
    /\ processing = FALSE
    /\ ocrResult = Null
    /\ masterNote = Null
    /\ summary = Null
    /\ mcqBatches = <<>>
    /\ flashcards = <<>>
    /\ currentQuestionIndex = 0
    /\ userAnswers = <<>>
    /\ examFinished = FALSE
    /\ error = Null
    /\ loadingStates = AllFlags(FALSE)
    /\ activeBatchIndex = 0
    /\ uploads = EmptyBag
    /\ runCount = 0
    /\ calls = <<>>
    /\ bonusCalls = EmptyBag
    /\ moreCalls = EmptyBag
    /\ alerted = NoAlert
    /\ selection = Null
    /\ clarification = Null
    /\ clarifyCalls = EmptyBag
    /\ gateway = NoGateway

\* ------------------------------------------------------------------ views
ErrorView == error # Null /\ ~processing
\* Mutant of UploadView: the view does not look at processing.
UploadViewWhileProcessing == ocrResult = Null /\ error = Null
UploadView == ocrResult = Null /\ ~processing /\ error = Null
ResultsView == ocrResult # Null /\ error = Null

PendingImages ==
    LET S == BagToSet(uploads)
        RECURSIVE Sum(_)
        Sum(T) == IF T = {} THEN 0
                  ELSE LET x == CHOOSE y \in T : TRUE
                       IN  Len(x) * CopiesIn(x, uploads) + Sum(T \ {x})
    IN  Sum(S)

\* ---------------------------------------------------------------- uploads
\* Mutant of FilesToProcess: the slot count is off by one.
FilesToProcessOneMore(files, currentCount) ==
    Slice0(files, MaxPhotos + 1 - currentCount)

\* handleFileUpload up to its await: the slot arithmetic on the rendered count.
FilesToProcess(files, currentCount) == Slice0(files, MaxPhotos - currentCount)

HandleFileUpload(files, maxRuns, maxImages) ==
    /\ UploadView
    /\ runCount < maxRuns
    /\ LET currentCount == Len(images)
           filesToProcess == FilesToProcess(files, currentCount)
       IN  IF Len(filesToProcess) = 0 /\ currentCount >= MaxPhotos
           THEN /\ alerted' = MaxReachedMsg
                /\ UNCHANGED uploads
           ELSE /\ Len(images) + PendingImages + Len(filesToProcess) <= maxImages
                /\ uploads' = uploads (+) SetToBag({filesToProcess})
                /\ alerted' = NoAlert
    /\ UNCHANGED <<clarifyVars, gateway, stateVars, loadingStates, activeBatchIndex, runCount, calls,
                   bonusCalls, moreCalls>>

\* Mutant of AppendImages: the new images are put in front.
PrependImages(prevImages, newBase64Images) == newBase64Images \o prevImages

\* images: [...prev.images, ...newBase64Images]
AppendImages(prevImages, newBase64Images) == prevImages \o newBase64Images

\* The continuation once Promise.all over the file reads has resolved.
FileReadsResolve(newImages) ==
    /\ BagIn(newImages, uploads)
    /\ uploads' = uploads (-) SetToBag({newImages})
    /\ images' = AppendImages(images, newImages)
    /\ error' = Null
    /\ alerted' = NoAlert
    /\ UNCHANGED <<clarifyVars, gateway, processing, ocrResult, masterNote, summary, mcqBatches,
                   flashcards, currentQuestionIndex, userAnswers, examFinished,
                   loadingStates, activeBatchIndex, runCount, calls, bonusCalls,
                   moreCalls>>

\* The continuation once a file read has failed.
FileReadsReject(newImages) ==
    /\ BagIn(newImages, uploads)
    /\ uploads' = uploads (-) SetToBag({newImages})
    /\ alerted' = LoadFailedMsg
    /\ UNCHANGED <<clarifyVars, gateway, stateVars, loadingStates, activeBatchIndex, runCount, calls,
                   bonusCalls, moreCalls>>

RemoveImage(index) ==
    /\ UploadView
    /\ index \in 1..Len(images)
    /\ images' = RemoveAt(images, index)
    /\ alerted' = NoAlert
    /\ UNCHANGED <<clarifyVars, gateway, processing, ocrResult, masterNote, summary, mcqBatches,
                   flashcards, currentQuestionIndex, userAnswers, examFinished,
                   error, loadingStates, activeBatchIndex, uploads, runCount,
                   calls, bonusCalls, moreCalls>>

\* The error view's "Clear Images" button.
ClearImages ==
    /\ ErrorView
    /\ error' = Null
    /\ images' = <<>>
    /\ alerted' = NoAlert
    /\ UNCHANGED <<clarifyVars, gateway, processing, ocrResult, masterNote, summary, mcqBatches,
                   flashcards, currentQuestionIndex, userAnswers, examFinished,
                   loadingStates, activeBatchIndex, uploads, runCount, calls,
                   bonusCalls, moreCalls>>

\* The results view's "Start New" button.
StartNew ==
    /\ ResultsView
    /\ ocrResult' = Null
    /\ images' = <<>>
    /\ error' = Null
    /\ alerted' = NoAlert
    /\ UNCHANGED <<clarifyVars, gateway, processing, masterNote, summary, mcqBatches, flashcards,
                   currentQuestionIndex, userAnswers, examFinished,
                   loadingStates, activeBatchIndex, uploads, runCount, calls,
                   bonusCalls, moreCalls>>

\* -------------------------------------------------------- Gateway payloads
RunTag(r) == ToString(r)

\* What extractOCRAndSubject resolves to: always both fields.
ProcessingResult(r) == [ocrText |-> <<"ocr", RunTag(r)>>, subject |-> "Math"]

\* What generateMasterNote can resolve to: the parsed object, with the three
\* keys or, from (response.text || '{}'), with none.
FullNote(ocrText) ==
    [layer1 |-> Some(<<"l1", ocrText[2]>>), layer2 |-> Some(<<"l2", ocrText[2]>>),
     layer3 |-> Some(<<"l3", ocrText[2]>>)]
EmptyNote == [layer1 |-> Null, layer2 |-> Null, layer3 |-> Null]
NoteResponses(ocrText) == {FullNote(ocrText), EmptyNote}

SummaryText(ocrText) == <<"summary", ocrText[2]>>

\* root.questions || []: n questions numbered 1..n, made from ocrText.
Questions(n, ocrText) ==
    [i \in 1..n |-> [id |-> i, question |-> <<"q", ocrText[2]>>]]

\* data.cards || []
Cards(n, ocrText) ==
    [i \in 1..n |-> [id |-> i, question |-> <<"card", ocrText[2]>>]]

\* response.text || '' of generateMoreBonus
BonusTexts == {<<>>, <<"bonus">>}

\* The responses a specification draws from.  With faults, every outcome of the
\* Gateway call (rejected: Null; malformed or empty payloads); without, the
\* nominal payload only.
NoteOutcomes(faults, ocrText) ==
    IF faults THEN {Null} \cup {Some(n) : n \in NoteResponses(ocrText)}
    ELSE {Some(FullNote(ocrText))}
GatewayOutcomes(faults) == IF faults THEN BOOLEAN ELSE {TRUE}
CardCounts(faults) == IF faults THEN 0..1 ELSE {1}
BatchOutcomes(faults, maxQ, ocrText) ==
    IF faults THEN {Null} \cup {Some(Questions(n, ocrText)) : n \in 0..maxQ}
    ELSE {Some(Questions(maxQ, ocrText))}
BonusOutcomes(faults) ==
    IF faults THEN {Null} \cup {Some(t) : t \in BonusTexts} ELSE {Some(<<"bonus">>)}

\* String(x) of a possibly missing text, as the + operator coerces it.
Str(o) == IF o = Null THEN <<"undefined">> ELSE Get(o)

Separator == <<"\n\n">>

SetFlag(ls, k, b) == [ls EXCEPT ![k] = b]

\* The outcome kept for a settled derivation call: that of the latest run only
\* (an earlier run's call is just marked done).
Settled(r, outcome) == IF r = runCount THEN outcome ELSE "done"

Forget(c) ==
    [k \in DOMAIN c |->
        IF k # "ocr" /\ c[k] \in {"ok", "fail"} THEN "done" ELSE c[k]]

\* Number of Gateway calls pending (extraction, derivations, extensions).
PendingCalls ==
    LET RECURSIVE InRun(_)
        InRun(r) ==
            IF r = 0 THEN 0
            ELSE Cardinality({k \in DOMAIN calls[r] : calls[r][k] = "inflight"})
                 + InRun(r - 1)
    IN  InRun(Len(calls)) + BagCardinality(bonusCalls) + BagCardinality(moreCalls)

\* ------------------------------------------------------------ handleGenerate
\* Mutant of RunFlags: only the extraction flag is raised at the trigger.
RunFlagsExtractionOnly == [loadingStates EXCEPT !.ocr = TRUE]

\* The loading flags handleGenerate sets when a run starts.
RunFlags ==
    [ocr |-> TRUE, notes |-> TRUE, summary |-> TRUE, practice |-> TRUE,
     flashcards |-> TRUE, clarification |-> FALSE, moreBonus |-> FALSE,
     morePractice |-> FALSE]

\* Mutant of IssueExtraction: the derivations are issued with the extraction,
\* without waiting for it.
IssueEverything ==
    [ocr |-> "inflight", notes |-> "inflight", summary |-> "inflight",
     practice |-> "inflight", flashcards |-> "inflight"]

\* The calls issued by the synchronous part of handleGenerate.
IssueExtraction == [NoCalls EXCEPT !.ocr = "inflight"]

\* Mutant of ErrorOnTrigger: the trigger leaves the error of the run before.
ErrorKeptOnTrigger(prevError) == prevError

\* error: null in the reset of handleGenerate.
ErrorOnTrigger(prevError) == Null

\* "Generate Study Kit" (upload view) or "Try Again" (error view), up to the await.
HandleGenerate(maxRuns, maxStale) ==
    /\ ErrorView \/ (UploadView /\ Len(images) # 0)
    /\ Len(images) # 0
    /\ runCount < maxRuns
    /\ PendingCalls <= maxStale
    /\ processing' = TRUE
    /\ error' = ErrorOnTrigger(error)
    /\ ocrResult' = Null
    /\ mcqBatches' = <<>>
    /\ flashcards' = <<>>
    /\ masterNote' = Null
    /\ summary' = Null
    /\ examFinished' = FALSE
    /\ userAnswers' = <<>>
    /\ currentQuestionIndex' = 0
    /\ activeBatchIndex' = 0
    /\ loadingStates' = RunFlags
    /\ runCount' = runCount + 1
    /\ calls' = Append([r \in DOMAIN calls |-> Forget(calls[r])], IssueExtraction)
    /\ alerted' = NoAlert
    /\ UNCHANGED <<clarifyVars, gateway, images, uploads, bonusCalls, moreCalls>>

\* The calls of a run after its extraction resolved: the four derivations issued.
DispatchDerivations(c) ==
    [c EXCEPT !.ocr = "ok", !.notes = "inflight", !.summary = "inflight",
              !.practice = "inflight", !.flashcards = "inflight"]

\* extractOCRAndSubject resolved: the try block after the await.
ExtractionResolves(r) ==
    /\ calls[r].ocr = "inflight"
    /\ ocrResult' = Some(ProcessingResult(r))
    /\ processing' = FALSE
    /\ loadingStates' = SetFlag(loadingStates, "ocr", FALSE)
    /\ calls' = [calls EXCEPT ![r] = DispatchDerivations(calls[r])]
    /\ alerted' = NoAlert
    /\ UNCHANGED <<clarifyVars, gateway, images, masterNote, summary, mcqBatches, flashcards,
                   currentQuestionIndex, userAnswers, examFinished, error,
                   activeBatchIndex, uploads, runCount, bonusCalls, moreCalls>>

\* Mutant of AbortRun: the derivations are dispatched after the try/catch, so
\* also when the extraction failed.
AbortRunDispatching(c) ==
    [c EXCEPT !.ocr = "fail", !.notes = "inflight", !.summary = "inflight",
              !.practice = "inflight", !.flashcards = "inflight"]

\* The calls of a run whose extraction failed: none issued.
AbortRun(c) == [c EXCEPT !.ocr = "fail"]

\* error?.message || "Analysis failed. ...": never empty.
ErrorMessage == AnalysisFailedMsg

\* extractOCRAndSubject rejected (transport or parse failure): the catch block.
ExtractionRejects(r) ==
    /\ calls[r].ocr = "inflight"
    /\ processing' = FALSE
    /\ error' = Some(ErrorMessage)
    /\ loadingStates' = AllFlags(FALSE)
    /\ calls' = [calls EXCEPT ![r] = AbortRun(calls[r])]
    /\ alerted' = NoAlert
    /\ UNCHANGED <<clarifyVars, gateway, images, ocrResult, masterNote, summary, mcqBatches,
                   flashcards, currentQuestionIndex, userAnswers, examFinished,
                   activeBatchIndex, uploads, runCount, bonusCalls, moreCalls>>

\* Mutant of ClearOnCatch: the derivation has no .catch callback.
KeepOnCatch(ls, k) == ls

\* Mutant of ClearOnCatch: the callback clears every flag, as the catch block
\* of handleGenerate does.
ClearAllOnCatch(ls, k) == AllFlags(FALSE)

\* .catch(() => setLoadingStates(ls => ({ ...ls, [k]: false })))
ClearOnCatch(ls, k) == SetFlag(ls, k, FALSE)

\* generateMasterNote(...) settled: the .then callback on a resolved response
\* (Some(note)), the .catch callback on a rejection (Null).
NoteSettles(r, response) ==
    /\ calls[r].notes = "inflight"
    /\ masterNote' = IF response # Null THEN Some(Get(response)) ELSE masterNote
    /\ loadingStates' = IF response # Null
                        THEN SetFlag(loadingStates, "notes", FALSE)
                        ELSE ClearOnCatch(loadingStates, "notes")
    /\ calls' = [calls EXCEPT
                   ![r].notes = Settled(r, IF response # Null THEN "ok" ELSE "fail")]
    /\ alerted' = NoAlert
    /\ UNCHANGED <<clarifyVars, gateway, images, processing, ocrResult, summary, mcqBatches,
                   flashcards, currentQuestionIndex, userAnswers, examFinished,
                   error, activeBatchIndex, uploads, runCount, bonusCalls,
                   moreCalls>>

\* What generateSummary resolves to: the text, or on a failed Gateway call the
\* text its catch block returns.  It never rejects.
GenerateSummary(ocrText, gatewayOk) ==
    IF gatewayOk THEN SummaryText(ocrText) ELSE SummaryFailedText

\* generateSummary(...).then
SummarySettles(r, gatewayOk) ==
    /\ calls[r].summary = "inflight"
    /\ summary' = Some(GenerateSummary(ProcessingResult(r).ocrText, gatewayOk))
    /\ loadingStates' = SetFlag(loadingStates, "summary", FALSE)
    /\ calls' = [calls EXCEPT
                   ![r].summary = Settled(r, IF gatewayOk THEN "ok" ELSE "fail")]
    /\ alerted' = NoAlert
    /\ UNCHANGED <<clarifyVars, gateway, images, processing, ocrResult, masterNote, mcqBatches,
                   flashcards, currentQuestionIndex, userAnswers, examFinished,
                   error, activeBatchIndex, uploads, runCount, bonusCalls,
                   moreCalls>>

\* The batch list the first-batch derivation stores.
FirstBatch(questions) == <<[batchNumber |-> 1, questions |-> questions]>>

\* generateMCQBatch(..., 1) settled: .then on Some(questions), .catch on Null.
PracticeSettles(r, response) ==
    /\ calls[r].practice = "inflight"
    /\ mcqBatches' = IF response # Null THEN FirstBatch(Get(response)) ELSE mcqBatches
    /\ loadingStates' = IF response # Null
                        THEN SetFlag(loadingStates, "practice", FALSE)
                        ELSE ClearOnCatch(loadingStates, "practice")
    /\ calls' = [calls EXCEPT
                   ![r].practice = Settled(r, IF response # Null THEN "ok" ELSE "fail")]
    /\ alerted' = NoAlert
    /\ UNCHANGED <<clarifyVars, gateway, images, processing, ocrResult, masterNote, summary,
                   flashcards, currentQuestionIndex, userAnswers, examFinished,
                   error, activeBatchIndex, uploads, runCount, bonusCalls,
                   moreCalls>>

\* What generateFlashcards resolves to: the cards, or [] from its catch block.
\* It never rejects.
GenerateFlashcards(ocrText, gatewayOk, n) ==
    IF gatewayOk THEN Cards(n, ocrText) ELSE <<>>

\* generateFlashcards(...).then
FlashcardsSettle(r, gatewayOk, n) ==
    /\ calls[r].flashcards = "inflight"
    /\ flashcards' = GenerateFlashcards(ProcessingResult(r).ocrText, gatewayOk, n)
    /\ loadingStates' = SetFlag(loadingStates, "flashcards", FALSE)
    /\ calls' = [calls EXCEPT
                   ![r].flashcards = Settled(r, IF gatewayOk THEN "ok" ELSE "fail")]
    /\ alerted' = NoAlert
    /\ UNCHANGED <<clarifyVars, gateway, images, processing, ocrResult, masterNote, summary,
                   mcqBatches, currentQuestionIndex, userAnswers, examFinished,
                   error, activeBatchIndex, uploads, runCount, bonusCalls,
                   moreCalls>>

\* ---------------------------------------------------------- handleMoreBonus
\* Mutant of BonusUpdater: appends to the layer3 the handler captured
\* (state.masterNote.layer3) instead of the one in prev.
BonusUpdaterStale(prev, closure, moreContent) ==
    IF prev = Null THEN prev
    ELSE Some([Get(prev) EXCEPT
                 !.layer3 = Some(Str(closure.existingBonus) \o Separator \o moreContent)])

\* The setState updater of handleMoreBonus; `closure` is what the handler
\* captured when it started, moreContent what generateMoreBonus resolved to.
BonusUpdater(prev, closure, moreContent) ==
    IF prev = Null THEN prev
    ELSE Some([Get(prev) EXCEPT
                 !.layer3 = Some(Str(Get(prev).layer3) \o Separator \o moreContent)])

\* The "More Questions" button of the master tab, up to the await.
HandleMoreBonus(maxLayer3) ==
    /\ ResultsView
    /\ masterNote # Null
    /\ ~loadingStates.moreBonus
    /\ Len(Str(Get(masterNote).layer3)) <= maxLayer3
    /\ loadingStates' = SetFlag(loadingStates, "moreBonus", TRUE)
    /\ bonusCalls' = bonusCalls (+) SetToBag({[ocrText |-> Get(ocrResult).ocrText,
                                               existingBonus |-> Get(masterNote).layer3]})
    /\ alerted' = NoAlert
    /\ UNCHANGED <<clarifyVars, gateway, stateVars, activeBatchIndex, uploads, runCount, calls, moreCalls>>

\* Mutant of MergeBonus: a failed call is merged as the empty text.
MergeBonusAlways(prev, closure, response) ==
    BonusUpdater(prev, closure, IF response # Null THEN Get(response) ELSE <<>>)

\* The try block after the await: the updater runs on a resolved call only,
\* a rejection skips it.
MergeBonus(prev, closure, response) ==
    IF response # Null THEN BonusUpdater(prev, closure, Get(response)) ELSE prev

\* generateMoreBonus settled: the try block on Some(moreContent), the catch
\* block on Null, then the finally block.  With existingBonus undefined the call
\* throws on existingBonus.substring and can only reject.
BonusSettles(closure, response) ==
    /\ BagIn(closure, bonusCalls)
    /\ closure.existingBonus = Null => response = Null
    /\ bonusCalls' = bonusCalls (-) SetToBag({closure})
    /\ masterNote' = MergeBonus(masterNote, closure, response)
    /\ alerted' = IF response # Null THEN NoAlert ELSE BonusFailedMsg
    /\ loadingStates' = SetFlag(loadingStates, "moreBonus", FALSE)
    /\ UNCHANGED <<clarifyVars, gateway, images, processing, ocrResult, summary, mcqBatches, flashcards,
                   currentQuestionIndex, userAnswers, examFinished, error,
                   activeBatchIndex, uploads, runCount, calls, moreCalls>>

\* ------------------------------------------------------------- practice tab
\* const currentBatch = state.mcqBatches[activeBatchIndex]
HasCurrentBatch == activeBatchIndex < Len(mcqBatches)
currentBatch == mcqBatches[activeBatchIndex + 1]
totalInBatch == IF HasCurrentBatch THEN Len(currentBatch.questions) ELSE 0

\* The practice tab draws the exam (batch buttons, question, navigation).
ExamShown ==
    /\ ResultsView
    /\ ~(loadingStates.practice /\ Len(mcqBatches) = 0)
    /\ HasCurrentBatch

HasCurrentQuestion == currentQuestionIndex < totalInBatch
currentQuestion == currentBatch.questions[currentQuestionIndex + 1]

\* ---------------------------------------------------- handleGenerateMoreMCQs
\* Mutant of StoresBatch: the length check is dropped.
StoresAnyBatch(questions) == Len(questions) >= 0

\* Whether the handler takes the branch that stores the new batch.
StoresBatch(questions) == Len(questions) > 0

\* The setState updater of the success branch.
MoreMCQsUpdater(prevBatches, closure, questions) ==
    Append(prevBatches,
           [batchNumber |-> closure.nextBatchNum, questions |-> questions])

\* setActiveBatchIndex(state.mcqBatches.length), on the captured state.
NewActiveBatchIndex(closure) == closure.length

\* The "+ 50 MORE" button, up to the await.
HandleGenerateMoreMCQs(maxBatches) ==
    /\ ExamShown
    /\ ~loadingStates.morePractice
    /\ Len(mcqBatches) < maxBatches
    /\ loadingStates' = SetFlag(loadingStates, "morePractice", TRUE)
    /\ moreCalls' = moreCalls (+) SetToBag({[ocrText |-> Get(ocrResult).ocrText,
                                             nextBatchNum |-> Len(mcqBatches) + 1,
                                             length |-> Len(mcqBatches)]})
    /\ alerted' = NoAlert
    /\ UNCHANGED <<clarifyVars, gateway, stateVars, activeBatchIndex, uploads, runCount, calls, bonusCalls>>

\* generateMCQBatch settled: the try block on Some(questions), the catch block
\* on Null, then the finally block.
MoreMCQsSettles(closure, response) ==
    /\ BagIn(closure, moreCalls)
    /\ moreCalls' = moreCalls (-) SetToBag({closure})
    /\ IF response # Null /\ StoresBatch(Get(response))
       THEN /\ mcqBatches' = MoreMCQsUpdater(mcqBatches, closure, Get(response))
            /\ currentQuestionIndex' = 0
            /\ examFinished' = FALSE
            /\ userAnswers' = <<>>
            /\ activeBatchIndex' = NewActiveBatchIndex(closure)
            /\ alerted' = NoAlert
       ELSE /\ alerted' = IF response # Null THEN NoMoreMsg ELSE MoreMCQFailedMsg
            /\ UNCHANGED <<mcqBatches, currentQuestionIndex, examFinished,
                           userAnswers, activeBatchIndex>>
    /\ loadingStates' = SetFlag(loadingStates, "morePractice", FALSE)
    /\ UNCHANGED <<clarifyVars, gateway, images, processing, ocrResult, masterNote, summary, flashcards,
                   error, uploads, runCount, calls, bonusCalls>>

\* --------------------------------------------------------------- the exam
\* A "BATCH i" button.
SelectBatch(i) ==
    /\ ExamShown
    /\ i \in 0..(Len(mcqBatches) - 1)
    /\ activeBatchIndex' = i
    /\ currentQuestionIndex' = 0
    /\ alerted' = NoAlert
    /\ UNCHANGED <<clarifyVars, gateway, images, processing, ocrResult, masterNote, summary, mcqBatches,
                   flashcards, userAnswers, examFinished, error, loadingStates,
                   uploads, runCount, calls, bonusCalls, moreCalls>>

\* Mutant of answered: the option buttons are never disabled.
neverAnswered == FALSE

\* const answered = !!state.userAnswers[qId]
answered ==
    /\ currentQuestion.id \in DOMAIN userAnswers
    /\ userAnswers[currentQuestion.id] # ""

\* An option button of the current question; disabled={answered}.
RecordAnswer(key) ==
    /\ ExamShown
    /\ HasCurrentQuestion
    /\ ~answered
    /\ userAnswers' = (currentQuestion.id :> key) @@ userAnswers
    /\ alerted' = NoAlert
    /\ UNCHANGED <<clarifyVars, gateway, images, processing, ocrResult, masterNote, summary, mcqBatches,
                   flashcards, currentQuestionIndex, examFinished, error,
                   loadingStates, activeBatchIndex, uploads, runCount, calls,
                   bonusCalls, moreCalls>>

\* The "Previous" button, disabled at index 0.
PreviousQuestion ==
    /\ ExamShown
    /\ currentQuestionIndex # 0
    /\ currentQuestionIndex' = currentQuestionIndex - 1
    /\ alerted' = NoAlert
    /\ UNCHANGED <<clarifyVars, gateway, images, processing, ocrResult, masterNote, summary, mcqBatches,
                   flashcards, userAnswers, examFinished, error, loadingStates,
                   activeBatchIndex, uploads, runCount, calls, bonusCalls,
                   moreCalls>>

\* The "Next Question" button, drawn while currentQuestionIndex < totalInBatch - 1.
NextQuestion ==
    /\ ExamShown
    /\ currentQuestionIndex < totalInBatch - 1
    /\ currentQuestionIndex' = currentQuestionIndex + 1
    /\ alerted' = NoAlert
    /\ UNCHANGED <<clarifyVars, gateway, images, processing, ocrResult, masterNote, summary, mcqBatches,
                   flashcards, userAnswers, examFinished, error, loadingStates,
                   activeBatchIndex, uploads, runCount, calls, bonusCalls,
                   moreCalls>>

\* The "Finish Exam" button, drawn in place of "Next Question" otherwise.
FinishExam ==
    /\ ExamShown
    /\ ~(currentQuestionIndex < totalInBatch - 1)
    /\ examFinished' = TRUE
    /\ alerted' = NoAlert
    /\ UNCHANGED <<clarifyVars, gateway, images, processing, ocrResult, masterNote, summary, mcqBatches,
                   flashcards, currentQuestionIndex, userAnswers, error,
                   loadingStates, activeBatchIndex, uploads, runCount, calls,
                   bonusCalls, moreCalls>>

\* ------------------------------------------------- structured Gateway calls
\* A response text is a sequence of tokens: the two code fences the parser
\* strips (three backquotes, with and without the json tag), white space, a JSON value and text that is not JSON.
TextTokens == {"fence-json", "fence", " ", "{}", "x"}
Texts == UNION {[1..n -> TextTokens] : n \in 0..MaxText}

ParseErrorMsg ==
    "Failed to parse AI response. The content might be too complex or formatted incorrectly."
TransportErrorMsg == "transport failure"

\* The two replace calls of parseJSONSafely: every fence is removed.
RECURSIVE StripFences(_)
StripFences(text) ==
    IF text = <<>> THEN <<>>
    ELSE IF Head(text) \in {"fence-json", "fence"} THEN StripFences(Tail(text))
    ELSE <<Head(text)>> \o StripFences(Tail(text))

\* String.prototype.trim
RECURSIVE Trim(_)
Trim(text) ==
    IF text = <<>> THEN <<>>
    ELSE IF Head(text) = " " THEN Trim(Tail(text))
    ELSE IF text[Len(text)] = " " THEN Trim(SubSeq(text, 1, Len(text) - 1))
    ELSE text

\* JSON.parse accepts one JSON value and nothing else.
ParsesAsJSON(cleaned) == cleaned = <<"{}">>

\* parseJSONSafely: TRUE when it returns, FALSE when it throws its Error.
parseJSONSafely(text) == ParsesAsJSON(Trim(StripFences(text)))

\* response.text || '{}'
TextOrEmptyObject(text) == IF text = <<>> THEN <<"{}">> ELSE text

\* The five service functions that parse a structured response.
StructuredCalls ==
    {"extractOCRAndSubject", "generateMasterNote", "generateMCQBatch",
     "generateFlashcards", "clarifyText"}

\* How a structured call settles on the Gateway's reply (Null: the request
\* itself failed).  Four functions rethrow what their try block threw;
\* generateFlashcards returns [] from its catch block.
StructuredOutcome(fn, reply) ==
    LET thrown == IF reply = Null THEN Some(TransportErrorMsg)
                  ELSE IF parseJSONSafely(TextOrEmptyObject(Get(reply))) THEN Null
                  ELSE Some(ParseErrorMsg)
    IN  IF thrown = Null THEN [settled |-> "resolved", error |-> Null]
        ELSE IF fn = "generateFlashcards" THEN [settled |-> "resolved", error |-> Null]
        ELSE [settled |-> "rejected", error |-> thrown]

\* A structured call is made and the Gateway replies.
InitGateway ==
    /\ images = <<>>
    /\ processing = FALSE
    /\ ocrResult = Null
    /\ masterNote = Null
    /\ summary = Null
    /\ mcqBatches = <<>>
    /\ flashcards = <<>>
    /\ currentQuestionIndex = 0
    /\ userAnswers = <<>>
    /\ examFinished = FALSE
    /\ error = Null
    /\ loadingStates = AllFlags(FALSE)
    /\ activeBatchIndex = 0
    /\ uploads = EmptyBag
    /\ runCount = 0
    /\ calls = <<>>
    /\ bonusCalls = EmptyBag
    /\ moreCalls = EmptyBag
    /\ alerted = NoAlert
    /\ selection = Null
    /\ clarification = Null
    /\ clarifyCalls = EmptyBag
    /\ \E fn \in StructuredCalls : \E reply \in {Null} \cup {Some(t) : t \in Texts} :
          gateway = [fn |-> fn, reply |-> reply, outcome |-> Null]

\* The service function settles.
ServiceSettles ==
    /\ gateway.outcome = Null
    /\ gateway' = [gateway EXCEPT
                     !.outcome = Some(StructuredOutcome(gateway.fn, gateway.reply))]
    /\ UNCHANGED <<stateVars, loadingStates, activeBatchIndex, uploads, runCount,
                   calls, bonusCalls, moreCalls, alerted, clarifyVars>>

NextGateway == ServiceSettles

SpecGateway == InitGateway /\ [][NextGateway]_vars

\* ------------------------------------------------------------ clarification
\* The texts a user selects: the selected text and the text of its element.
Selections ==
    {[text |-> <<t>>, fullSentence |-> <<"sentence", t>>] : t \in {"w1", "w2"}}

\* What clarifyText can resolve to: the parsed object, with its two keys or,
\* from (response.text || '{}'), with none.
FullClarification(markedText) ==
    [definition |-> Some(<<"def">> \o markedText),
     fullExplanation |-> Some(<<"expl">> \o markedText)]
EmptyClarification == [definition |-> Null, fullExplanation |-> Null]
ClarifyOutcomes(markedText) ==
    {Null, Some(FullClarification(markedText)), Some(EmptyClarification)}

\* The "Clarify" tooltip and the clarification overlay.
TooltipShown ==
    selection # Null /\ clarification = Null /\ ~loadingStates.clarification
OverlayShown == clarification # Null \/ loadingStates.clarification

\* The document's mouseup listener; selected is what window.getSelection()
\* holds (Null: nothing, or a text of at most one character).
HandleMouseUp(selected) ==
    /\ selection' = IF selected # Null THEN selected
                    ELSE IF clarification = Null THEN Null ELSE selection
    /\ alerted' = NoAlert
    /\ UNCHANGED <<gateway, stateVars, loadingStates, activeBatchIndex, uploads, runCount,
                   calls, bonusCalls, moreCalls, clarification, clarifyCalls>>

\* The tooltip button: handleClarify up to its await.
HandleClarify(maxClarify) ==
    /\ TooltipShown
    /\ BagCardinality(clarifyCalls) < maxClarify
    /\ loadingStates' = SetFlag(loadingStates, "clarification", TRUE)
    /\ clarifyCalls' = clarifyCalls (+) SetToBag({[text |-> Get(selection).text]})
    /\ alerted' = NoAlert
    /\ UNCHANGED <<gateway, stateVars, activeBatchIndex, uploads, runCount, calls,
                   bonusCalls, moreCalls, selection, clarification>>

\* Mutant of ClarifyFinally: the flag is cleared in the try block only.
ClarifyFinallyOnSuccess(ls, response) ==
    IF response # Null THEN SetFlag(ls, "clarification", FALSE) ELSE ls

\* finally { setLoadingStates(ls => ({ ...ls, clarification: false })) }
ClarifyFinally(ls, response) == SetFlag(ls, "clarification", FALSE)

\* clarifyText settled: the try block on Some(result), the catch block on Null,
\* then the finally block.
ClarifySettles(closure, response) ==
    /\ BagIn(closure, clarifyCalls)
    /\ clarifyCalls' = clarifyCalls (-) SetToBag({closure})
    /\ clarification' = IF response # Null THEN Some(Get(response)) ELSE clarification
    /\ alerted' = IF response # Null THEN NoAlert ELSE ClarifyFailedMsg
    /\ loadingStates' = ClarifyFinally(loadingStates, response)
    /\ UNCHANGED <<gateway, stateVars, activeBatchIndex, uploads, runCount, calls,
                   bonusCalls, moreCalls, selection>>

\* closeClarification: the overlay's backdrop, its close and "Got it!" buttons.
CloseClarification ==
    /\ OverlayShown
    /\ clarification' = Null
    /\ selection' = Null
    /\ alerted' = NoAlert
    /\ UNCHANGED <<gateway, stateVars, loadingStates, activeBatchIndex, uploads, runCount,
                   calls, bonusCalls, moreCalls, clarifyCalls>>

\* ----------------------------------------------------------- specifications
\* One step of the program, with the inputs drawn within the bounds B.
Step(B) ==
    \/ \E files \in FileLists(B.files) : HandleFileUpload(files, B.runs, B.images)
    \/ \E f \in BagToSet(uploads) : FileReadsResolve(f)
    \/ \E f \in BagToSet(uploads) : FileReadsReject(f)
    \/ \E i \in 1..Len(images) : RemoveImage(i)
    \/ ClearImages
    \/ StartNew
    \/ HandleGenerate(B.runs, B.stale)
    \/ \E r \in DOMAIN calls : ExtractionResolves(r)
    \/ \E r \in DOMAIN calls : ExtractionRejects(r)
    \/ \E r \in DOMAIN calls :
         \E response \in NoteOutcomes(B.noteFaults, ProcessingResult(r).ocrText) :
            NoteSettles(r, response)
    \/ \E r \in DOMAIN calls : \E ok \in GatewayOutcomes(B.noteFaults) :
         SummarySettles(r, ok)
    \/ \E r \in DOMAIN calls :
         \E response \in BatchOutcomes(B.batchFaults, B.questions,
                                       ProcessingResult(r).ocrText) :
            PracticeSettles(r, response)
    \/ \E r \in DOMAIN calls : \E ok \in GatewayOutcomes(B.noteFaults) :
         \E n \in CardCounts(B.noteFaults) : FlashcardsSettle(r, ok, n)
    \/ HandleMoreBonus(B.layer3)
    \/ \E c \in BagToSet(bonusCalls) : \E response \in BonusOutcomes(B.noteFaults) :
         BonusSettles(c, response)
    \/ HandleGenerateMoreMCQs(B.batches)
    \/ \E c \in BagToSet(moreCalls) :
         \E response \in BatchOutcomes(B.batchFaults, B.questions, c.ocrText) :
            MoreMCQsSettles(c, response)
    \/ \E i \in 0..(Len(mcqBatches) - 1) : SelectBatch(i)
    \/ \E key \in OptionKeys(B.options) : RecordAnswer(key)
    \/ PreviousQuestion
    \/ NextQuestion
    \/ FinishExam

\* The generation pipeline in depth: runs, stale completions, every outcome of
\* the derivation and bonus calls.
PipelineBounds ==
    [runs |-> MaxRuns, stale |-> MaxStale, files |-> MaxFiles, images |-> MaxImages,
     questions |-> MaxQ, batches |-> MaxBatches, layer3 |-> MaxLayer3,
     options |-> MaxOptions, noteFaults |-> TRUE, batchFaults |-> FALSE]

Next == Step(PipelineBounds)

Spec == Init /\ [][Next]_vars

\* The practice tab in depth: every outcome of the batch calls, the exam.
ExamBounds ==
    [runs |-> MaxRuns, stale |-> MaxStale, files |-> MaxFiles, images |-> MaxImages,
     questions |-> MaxQ, batches |-> MaxBatches, layer3 |-> MaxLayer3,
     options |-> ExamOptions, noteFaults |-> FALSE, batchFaults |-> TRUE]

NextExam == Step(ExamBounds)

SpecExam == Init /\ [][NextExam]_vars

\* The image picker in depth.
UploadBounds ==
    [runs |-> UploadRuns, stale |-> UploadStale, files |-> UploadFiles,
     images |-> UploadImages, questions |-> MaxQ, batches |-> MaxBatches,
     layer3 |-> MaxLayer3, options |-> MaxOptions, noteFaults |-> FALSE,
     batchFaults |-> FALSE]

NextUpload == Step(UploadBounds)

SpecUpload == Init /\ [][NextUpload]_vars

\* The program with the clarification of selected text.
ClarifyBounds ==
    [runs |-> ClarifyRuns, stale |-> UploadStale, files |-> MaxFiles,
     images |-> MaxImages, questions |-> MaxQ, batches |-> MaxBatches,
     layer3 |-> MaxLayer3, options |-> MaxOptions, noteFaults |-> FALSE,
     batchFaults |-> FALSE]
NextClarify ==
    \/ Step(ClarifyBounds)
    \/ \E selected \in {Null} \cup {Some(x) : x \in Selections} : HandleMouseUp(selected)
    \/ HandleClarify(MaxClarify)
    \/ \E c \in BagToSet(clarifyCalls) : \E response \in ClarifyOutcomes(c.text) :
         ClarifySettles(c, response)
    \/ CloseClarification

SpecClarify == Init /\ [][NextClarify]_vars

\* Every issued call of a run settles: weak fairness of the five settle steps.
\* Under this condition the pipeline is checked for progress.
CallsSettle(B) ==
    /\ WF_vars(\E r \in DOMAIN calls : ExtractionResolves(r) \/ ExtractionRejects(r))
    /\ WF_vars(\E r \in DOMAIN calls :
                 \E response \in NoteOutcomes(B.noteFaults, ProcessingResult(r).ocrText) :
                    NoteSettles(r, response))
    /\ WF_vars(\E r \in DOMAIN calls : \E ok \in GatewayOutcomes(B.noteFaults) :
                 SummarySettles(r, ok))
    /\ WF_vars(\E r \in DOMAIN calls :
                 \E response \in BatchOutcomes(B.batchFaults, B.questions,
                                               ProcessingResult(r).ocrText) :
                    PracticeSettles(r, response))
    /\ WF_vars(\E r \in DOMAIN calls : \E ok \in GatewayOutcomes(B.noteFaults) :
                 \E n \in CardCounts(B.noteFaults) : FlashcardsSettle(r, ok, n))

LiveBounds ==
    [runs |-> MaxRuns, stale |-> LiveStale, files |-> MaxFiles, images |-> MaxImages,
     questions |-> LiveQ, batches |-> MaxBatches, layer3 |-> MaxLayer3,
     options |-> MaxOptions, noteFaults |-> TRUE, batchFaults |-> TRUE]
NextLive == Step(LiveBounds)

SpecLive == Init /\ [][NextLive]_vars /\ CallsSettle(LiveBounds)

\* ------------------------------------------------------------------ claims
\* The derivation calls that are pending, as <<run, kind>> pairs.
Pending(cs) ==
    {<<r, k>> \in (DOMAIN cs) \X Derivations : cs[r][k] = "inflight"}

\* C1: the UploadSet never holds more than 5 images.  (Fails: two adds that
\* overlap both size their slice on the count rendered when they started.)
C1_UploadSetAtMostFive == Len(images) <= MaxPhotos

\* C2: a derivation call is issued only by the step in which the extraction call
\* of its own run resolves, and that step stores the run's ExtractionResult.
C2_DerivationsAfterExtraction ==
    [][\A p \in Pending(calls') \ Pending(calls) :
          /\ p[1] \in DOMAIN calls
          /\ calls[p[1]].ocr = "inflight"
          /\ calls'[p[1]].ocr = "ok"
          /\ ocrResult' = Some(ProcessingResult(p[1]))]_vars

\* A second run has its derivations pending.
C2_Witness == \E r \in DOMAIN calls : r > 1 /\ calls[r].summary = "inflight"

\* C3: a run whose extraction failed has issued no derivation call, and the step
\* in which the extraction fails leaves the error set and all eight flags false.
C3_ExtractionFailureAborts ==
    [][\A r \in DOMAIN calls' :
          calls'[r].ocr = "fail" =>
             /\ \A k \in Derivations : calls'[r][k] = "none"
             /\ (r \in DOMAIN calls /\ calls[r].ocr = "inflight") =>
                   /\ error' # Null
                   /\ loadingStates' = AllFlags(FALSE)]_vars

\* The extraction of a run has failed and the error view is up.
C3_Witness ==
    /\ runCount >= 1
    /\ calls[runCount].ocr = "fail"
    /\ error # Null
    /\ loadingStates = AllFlags(FALSE)

\* The artifact a derivation writes is empty / absent.
ArtifactEmpty(k) ==
    CASE k = "notes" -> masterNote = Null
      [] k = "summary" -> summary = Null
      [] k = "practice" -> mcqBatches = <<>>
      [] k = "flashcards" -> flashcards = <<>>

\* The artifact a derivation writes holds what the call of run r returned.
ArtifactOf(k, r) ==
    LET ocrText == ProcessingResult(r).ocrText
    IN  CASE k = "notes" ->
               /\ masterNote # Null
               /\ \E n \in NoteResponses(ocrText) :
                     /\ Get(masterNote).layer1 = n.layer1
                     /\ Get(masterNote).layer2 = n.layer2
          [] k = "summary" -> summary = Some(SummaryText(ocrText))
          [] k = "practice" ->
               /\ Len(mcqBatches) >= 1
               /\ \E n \in 0..MaxQ : mcqBatches[1].questions = Questions(n, ocrText)
          [] k = "flashcards" -> \E n \in 0..1 : flashcards = Cards(n, ocrText)

\* C4: once the four derivations of the run have settled with exactly one
\* failure, the failed one's artifact is empty, the other three hold their
\* results, and the error is null.  (Fails: a failed summary call still stores
\* the text generateSummary returns from its catch block.)
C4_OneFailureLeavesOthers ==
    (/\ runCount >= 1
     /\ calls[runCount].ocr = "ok"
     /\ \A k \in Derivations : calls[runCount][k] \in {"ok", "fail"}
     /\ Cardinality({k \in Derivations : calls[runCount][k] = "fail"}) = 1)
    => /\ error = Null
       /\ \A k \in Derivations :
             IF calls[runCount][k] = "fail" THEN ArtifactEmpty(k)
             ELSE ArtifactOf(k, runCount)

\* C5: the step in which the summary call of the run settles after a failed
\* Gateway call leaves summary null, the summary flag false and the error null.
\* (Fails: summary is set to "Summary generation failed.")
C5_FailedSummaryStaysNull ==
    [][\A r \in DOMAIN calls :
          (calls[r].summary = "inflight" /\ calls'[r].summary = "fail") =>
             /\ summary' = Null
             /\ ~loadingStates'.summary
             /\ error' = Null]_vars

\* C6: the completion of a derivation call of a superseded run changes neither
\* the artifacts nor the loading flags.  (Fails: nothing tags a call with its
\* run, so the late callback writes into the newer run's state.)
C6_StaleCompletionDiscarded ==
    [][(\E p \in Pending(calls) \ Pending(calls') : p[1] < runCount) =>
          UNCHANGED <<ocrResult, masterNote, summary, mcqBatches, flashcards,
                      loadingStates>>]_vars

\* C7: the i-th batch has batchNumber i.  (Fails: a batch extension numbers its
\* batch from the list it captured and appends it to the current list.)
C7_BatchesNumberedInOrder ==
    \A i \in 1..Len(mcqBatches) : mcqBatches[i].batchNumber = i

\* C8: a batch-extension call that settles either appends one batch that has
\* questions or, in particular when it returned none, changes nothing but its
\* own loading flag, which becomes false.
C8_EmptyExtensionChangesNothing ==
    [][(BagCardinality(moreCalls') < BagCardinality(moreCalls)) =>
          \/ /\ alerted' = NoAlert
             /\ Len(mcqBatches') = Len(mcqBatches) + 1
             /\ SubSeq(mcqBatches', 1, Len(mcqBatches)) = mcqBatches
             /\ Len(mcqBatches'[Len(mcqBatches')].questions) > 0
          \/ /\ alerted' \in {NoMoreMsg, MoreMCQFailedMsg}
             /\ UNCHANGED <<stateVars, activeBatchIndex>>
             /\ loadingStates' = SetFlag(loadingStates, "morePractice", FALSE)]_vars

\* An extension has just returned no questions while the exam was under way.
C8_Witness ==
    /\ alerted = NoMoreMsg
    /\ currentQuestionIndex > 0
    /\ userAnswers # <<>>
    /\ examFinished
    /\ Len(mcqBatches) >= 1

\* C9: a bonus extension that resolves with text B on a note whose layer3 is the
\* text L sets layer3 to L, the blank-line separator, B, with L the value at the
\* merge, and leaves layer1 and layer2 as they were.
C9_BonusAppendsAfterSeparator ==
    [][(/\ BagCardinality(bonusCalls') < BagCardinality(bonusCalls)
        /\ alerted' = NoAlert
        /\ masterNote # Null
        /\ Get(masterNote).layer3 # Null) =>
          \E B \in BonusTexts :
             masterNote' =
                Some([Get(masterNote) EXCEPT
                        !.layer3 = Some(Get(Get(masterNote).layer3) \o Separator \o B)])]_vars

\* A bonus text has been merged into the note of a second run.
C9_Witness ==
    /\ masterNote # Null
    /\ Get(masterNote).layer3 = Some(<<"l3", "2">> \o Separator \o <<"bonus">>)

\* C10: while no run is triggered, layer3 only grows: its value before a step is
\* a prefix of its value after.  (Fails: the note of a superseded run arrives
\* late and replaces the note, see C6.)
C10_Layer3AppendOnly ==
    [][(masterNote # Null /\ runCount' = runCount) =>
          /\ masterNote' # Null
          /\ IsPrefix(Str(Get(masterNote).layer3), Str(Get(masterNote').layer3))]_vars
\* C11: once a question has a recorded answer, no step changes that answer; the
\* answers go away only together, when a run trigger or a batch extension
\* resets userAnswers.
C11_AnswerRecordedOnce ==
    [][\A id \in DOMAIN userAnswers :
          \/ /\ id \in DOMAIN userAnswers'
             /\ userAnswers'[id] = userAnswers[id]
          \/ /\ userAnswers' = <<>>
             /\ \/ runCount' = runCount + 1
                \/ Len(mcqBatches') = Len(mcqBatches) + 1]_vars

\* The question on screen has its answer recorded and the other option was
\* not taken.
C11_Witness ==
    /\ ExamShown
    /\ HasCurrentQuestion
    /\ answered
    /\ userAnswers[currentQuestion.id] = "A"
    /\ totalInBatch = 2
    /\ currentQuestionIndex = 1

\* C12: the "Start New" step leaves every artifact, the exam state and every
\* loading flag at its initial value.  (Fails: the button clears ocrResult,
\* images and error only.)
C12_StartNewDiscardsSession ==
    [][(ocrResult # Null /\ ocrResult' = Null /\ runCount' = runCount) =>
          /\ masterNote' = Null
          /\ summary' = Null
          /\ mcqBatches' = <<>>
          /\ flashcards' = <<>>
          /\ userAnswers' = <<>>
          /\ currentQuestionIndex' = 0
          /\ ~examFinished'
          /\ loadingStates' = AllFlags(FALSE)]_vars

Min(a, b) == IF a < b THEN a ELSE b

\* C13: with 5 images on screen every file list gets an empty slice, no step
\* starts a file read, and the step that reports the maximum changes nothing.
C13_AddAtCapacityIsNoOp ==
    [][Len(images) = MaxPhotos =>
          /\ \A files \in FileLists(UploadFiles) :
                Len(FilesToProcess(files, Len(images))) = 0
          /\ BagCardinality(uploads') <= BagCardinality(uploads)
          /\ alerted' = MaxReachedMsg => UNCHANGED <<stateVars, uploads>>]_vars

\* An add was made with 5 images on screen and the maximum was reported.
C13_Witness ==
    /\ Len(images) = MaxPhotos
    /\ alerted = MaxReachedMsg

\* C14: an add of k files with c < 5 images on screen starts the read of the
\* first min(k, 5 - c) files, in order, and the step in which the read ends
\* puts exactly those after the images then in the set.
C14_AddTruncatesToFreeSlots ==
    [][/\ (Len(images) < MaxPhotos
           /\ BagCardinality(uploads') > BagCardinality(uploads)) =>
             \E files \in FileLists(UploadFiles) :
                uploads' = uploads (+) SetToBag(
                   {SubSeq(files, 1, Min(Len(files), MaxPhotos - Len(images)))})
       /\ (BagCardinality(uploads') < BagCardinality(uploads)
           /\ alerted' = NoAlert) =>
             \E f \in BagToSet(uploads) :
                /\ uploads' = uploads (-) SetToBag({f})
                /\ images' = images \o f]_vars

\* Two files were added with 4 images on screen: the first one was taken.
C14_Witness ==
    /\ images = <<1, 2, 1, 2, 1>>
    /\ uploads = EmptyBag

\* The five loading flags a run sets.
RunFlagNames == {"ocr", "notes", "summary", "practice", "flashcards"}

\* C15: provided every issued call settles, whenever one of the five run flags
\* is true a state follows in which all five are false, whatever the outcome of
\* the calls, and a run flag goes from false to true only in a run trigger.
C15_RunFlagsEventuallyClear ==
    /\ (\E k \in RunFlagNames : loadingStates[k])
          ~> (\A k \in RunFlagNames : ~loadingStates[k])
    /\ [][\A k \in RunFlagNames :
             (~loadingStates[k] /\ loadingStates'[k]) => runCount' = runCount + 1]_vars

\* A run in which the note call and the first-batch call failed has all its
\* flags back at false.
C15_Witness ==
    /\ runCount >= 1
    /\ calls[runCount].notes = "fail"
    /\ calls[runCount].practice = "fail"
    /\ calls[runCount].summary = "ok"
    /\ calls[runCount].flashcards = "ok"
    /\ \A k \in RunFlagNames : ~loadingStates[k]

\* C16: a master note that is set has its three layers.  (Fails: an empty
\* structured response is parsed to an object without the keys and stored.)
C16_NoteHasThreeLayers ==
    masterNote # Null =>
       /\ Get(masterNote).layer1 # Null
       /\ Get(masterNote).layer2 # Null
       /\ Get(masterNote).layer3 # Null

\* C17: the step in which a bonus extension fails changes no field of the
\* session state, so neither the master note nor the error, and of the loading
\* flags only moreBonus, which becomes false.
C17_FailedBonusChangesNothing ==
    [][(BagCardinality(bonusCalls') < BagCardinality(bonusCalls)
        /\ alerted' # NoAlert) =>
          /\ alerted' = BonusFailedMsg
          /\ UNCHANGED <<stateVars, activeBatchIndex>>
          /\ loadingStates' = SetFlag(loadingStates, "moreBonus", FALSE)]_vars

\* A bonus extension has just failed on a note that is set.
C17_Witness ==
    /\ alerted = BonusFailedMsg
    /\ masterNote # Null
    /\ Get(masterNote).layer3 # Null
    /\ error = Null

\* C18: the step in which a batch extension stores its batch appends it at the
\* end, sets currentQuestionIndex to 0 and examFinished to false, and makes the
\* position of the new batch the active batch index.  (Fails: the index is
\* taken from the list the handler captured, the append is on the current one.)
C18_ExtensionActivatesNewBatch ==
    [][(BagCardinality(moreCalls') < BagCardinality(moreCalls)
        /\ alerted' = NoAlert) =>
          /\ Len(mcqBatches') = Len(mcqBatches) + 1
          /\ SubSeq(mcqBatches', 1, Len(mcqBatches)) = mcqBatches
          /\ currentQuestionIndex' = 0
          /\ ~examFinished'
          /\ activeBatchIndex' = Len(mcqBatches') - 1]_vars

\* C19: a step that makes another batch the active one leaves userAnswers
\* empty.  (Fails: the "BATCH i" button resets currentQuestionIndex only.)
C19_AnswersResetOnBatchChange ==
    [][activeBatchIndex' # activeBatchIndex => userAnswers' = <<>>]_vars

\* C20: while the exam is drawn, currentQuestionIndex is a position of the
\* active batch.  (Fails: a first batch without questions is stored as it is.)
C20_QuestionIndexInBatch ==
    ExamShown => currentQuestionIndex < totalInBatch

\* C21: examFinished goes from false to true only in a step taken with the exam
\* drawn and currentQuestionIndex on the last question of the active batch.
\* (Fails: with a batch that has no question, see C20, "Finish Exam" is drawn
\* although there is no last question.)
C21_FinishOnlyAtLastQuestion ==
    [][(~examFinished /\ examFinished') =>
          /\ ExamShown
          /\ totalInBatch > 0
          /\ currentQuestionIndex = totalInBatch - 1]_vars

\* C22: a structured call whose payload does not parse after the fences are
\* stripped is rejected with the parse error, which is not the error of a
\* failed request.  (Fails: generateFlashcards resolves to [] instead.)
C22_ParseFailureIsDistinctFailure ==
    (/\ gateway.outcome # Null
     /\ gateway.reply # Null
     /\ ~parseJSONSafely(TextOrEmptyObject(Get(gateway.reply))))
    => /\ Get(gateway.outcome).settled = "rejected"
       /\ Get(gateway.outcome).error = Some(ParseErrorMsg)
       /\ Get(gateway.outcome) # StructuredOutcome(gateway.fn, Null)

\* C23: the step in which a clarification request fails changes no field of the
\* session state (so no artifact and not the error), leaves the clarification
\* on display as it was, and sets the clarification flag, and no other, to
\* false.
C23_FailedClarificationChangesNothing ==
    [][/\ (BagCardinality(clarifyCalls') < BagCardinality(clarifyCalls)
           /\ clarification' = clarification) =>
             /\ UNCHANGED <<stateVars, activeBatchIndex, selection>>
             /\ loadingStates' = SetFlag(loadingStates, "clarification", FALSE)
       /\ (alerted' = ClarifyFailedMsg) =>
             /\ BagCardinality(clarifyCalls') < BagCardinality(clarifyCalls)
             /\ clarification' = clarification]_vars

\* A clarification request has just failed while the artifacts of a run were
\* on display.
C23_Witness ==
    /\ alerted = ClarifyFailedMsg
    /\ ResultsView
    /\ masterNote # Null
    /\ mcqBatches # <<>>

\* C24: a run is triggered with 1 to 5 images in the UploadSet.  (Fails: the
\* set can hold 6 images, see C1, and the trigger does not look at the count.)
C24_RunHasOneToFiveImages ==
    [][runCount' = runCount + 1 =>
          (Len(images) >= 1 /\ Len(images) <= MaxPhotos)]_vars

\* C25: while a call is pending the loading flag of its kind is true.  (Fails:
\* the run trigger and the extraction failure write all eight flags.)
C25_FlagTrueWhileInFlight ==
    /\ \A r \in DOMAIN calls :
          /\ calls[r].ocr = "inflight" => loadingStates.ocr
          /\ \A k \in Derivations : calls[r][k] = "inflight" => loadingStates[k]
    /\ bonusCalls # EmptyBag => loadingStates.moreBonus
    /\ moreCalls # EmptyBag => loadingStates.morePractice
    /\ clarifyCalls # EmptyBag => loadingStates.clarification

\* The artifact a derivation writes.
Artifact(k) ==
    CASE k = "notes" -> masterNote
      [] k = "summary" -> summary
      [] k = "practice" -> mcqBatches
      [] k = "flashcards" -> flashcards

\* C26: the step in which a derivation call settles sets its own flag to false
\* and leaves the other flags, the other three artifacts, the extraction
\* result, the error and the exam state as they were; and once the four calls
\* of a first run have succeeded each artifact holds the result of its call,
\* in whatever order they settled.
C26_DerivationsWriteDisjointSlices ==
    [][/\ \A p \in Pending(calls) \ Pending(calls') :
             /\ loadingStates' = SetFlag(loadingStates, p[2], FALSE)
             /\ \A k \in Derivations \ {p[2]} : Artifact(k)' = Artifact(k)
             /\ UNCHANGED <<images, processing, ocrResult, error,
                            currentQuestionIndex, userAnswers, examFinished,
                            activeBatchIndex>>
       /\ (/\ runCount' = 1
           /\ calls'[1].ocr = "ok"
           /\ \A k \in Derivations : calls'[1][k] = "ok")
          => \A k \in Derivations : ArtifactOf(k, 1)']_vars

\* The note call of the run has failed, the other three have succeeded and
\* their artifacts are in place.
C26_Witness ==
    /\ runCount = 1
    /\ calls[1].notes = "fail"
    /\ \A k \in Derivations \ {"notes"} : calls[1][k] = "ok" /\ ArtifactOf(k, 1)
    /\ masterNote = Null

\* C27: the run trigger leaves the extraction result, the note and the summary
\* null, the batches and the flashcards empty, the error null, the exam state
\* initial and the five run flags true.
C27_TriggerResetsSession ==
    [][runCount' = runCount + 1 =>
          /\ ocrResult' = Null
          /\ masterNote' = Null
          /\ summary' = Null
          /\ mcqBatches' = <<>>
          /\ flashcards' = <<>>
          /\ error' = Null
          /\ userAnswers' = <<>>
          /\ currentQuestionIndex' = 0
          /\ ~examFinished'
          /\ \A k \in RunFlagNames : loadingStates'[k]]_vars

\* A second run has just been triggered after a run whose note had arrived.
C27_Witness ==
    /\ runCount = 2
    /\ calls[2].ocr = "inflight"
    /\ calls[1].notes = "done"
    /\ calls[1].practice = "done"
    /\ processing

\* C28: when an extension call settles that was requested on the text of an
\* earlier run, the note and the batches are left as they are.  (Fails: the
\* updaters merge into whatever note or batch list is current.)
C28_ExtensionOfOldRunDiscarded ==
    [][/\ (\E c \in BagToSet(bonusCalls) :
             /\ bonusCalls' = bonusCalls (-) SetToBag({c})
             /\ runCount >= 1
             /\ c.ocrText # ProcessingResult(runCount).ocrText) =>
          UNCHANGED masterNote
       /\ (\E c \in BagToSet(moreCalls) :
             /\ moreCalls' = moreCalls (-) SetToBag({c})
             /\ runCount >= 1
             /\ c.ocrText # ProcessingResult(runCount).ocrText) =>
          UNCHANGED mcqBatches]_vars

\* C29: at most one bonus-extension call and at most one batch-extension call
\* is pending.  (Fails: the run trigger sets moreBonus and morePractice to
\* false while such a call is pending, which enables the button again.)
C29_OneExtensionInFlight ==
    /\ BagCardinality(bonusCalls) <= 1
    /\ BagCardinality(moreCalls) <= 1

\* C30: at most one extraction call is pending, and processing is true exactly
\* while one is.
C30_OneExtractionInFlight ==
    /\ Cardinality({r \in DOMAIN calls : calls[r].ocr = "inflight"}) <= 1
    /\ processing <=> (\E r \in DOMAIN calls : calls[r].ocr = "inflight")

\* The extraction of a second run is pending while a call of the first run
\* is still pending too.
C30_Witness ==
    /\ runCount = 2
    /\ processing
    /\ calls[2].ocr = "inflight"
    /\ \E k \in Derivations : calls[1][k] = "inflight"

C32_NoEmptyBatch ==
    \A i \in 1..Len(mcqBatches) : Len(mcqBatches[i].questions) >= 1

\* C33: whenever the batch list is not empty, the active batch index is the
\* index of one of its batches.  (Fails: the extension handler sets the index
\* to the length of the batch list it captured at the click.)
C33_ActiveBatchExists ==
    Len(mcqBatches) # 0 =>
        (activeBatchIndex >= 0 /\ activeBatchIndex < Len(mcqBatches))

=============================================================================
